---- MODULE Spec2Model ----
(***************************************************************************)
(* Trading engine of the SBTB bot (server/services/BotEngine.ts, the       *)
(* mutex + SQLite revision kept as src/unnamed/part_008), its persistence  *)
(* store (SqlitePersistenceService, src/unnamed/part_007) and the exchange *)
(* gateway it drives (src/server/services/ExchangeService.ts).             *)
(*                                                                         *)
(* Execution model: Node.js.  Every external event (a WebSocket command,   *)
(* a timer fire, the completion of a gateway call) is a macrotask; the     *)
(* hand-over of the async-mutex and the continuation of start() are        *)
(* microtasks that run to completion before the next macrotask.            *)
(*                                                                         *)
(* Numbers: prices, amounts and quote values are integers; a percentage    *)
(* factor (1 +/- p/100) is kept exact by carrying values scaled by 100     *)
(* (names ending in 100).  A JavaScript undefined / NaN is a sentinel.     *)
(***************************************************************************)
EXTENDS Integers, Sequences, FiniteSets, TLC

\* ------------------------------------------------------------------ bounds
MaxTime == 3        \* executeLoop invocations in one behaviour (clock cap)
MaxQueue == 2       \* callers waiting for the mutex
MaxRestarts == 1    \* process restarts (constructions after the first)
MaxUpdates == 1     \* updateSettings calls in one behaviour
MaxOutages == 1     \* steps of one behaviour in which the store throws

\* ------------------------------------------------------- program constants
MIN_TRADE_VALUE_USDT == 10
TOP_CANDIDATES == 30
\* the legacy ledger keeps 500 rows ([newTrade, ...tradeLedger.slice(0, 499)]);
\* scaled to the few fills of a bounded run
LEDGER_CAP == 2
EXCLUDED_SYMBOLS_BY_DEFAULT == {"BTCUSDT", "ETHUSDT", "BNBUSDT"}

\* --------------------------------------------------- JavaScript value model
Undefined == -1000001
NaN == -1000002
IsNum(x) == x > -1000000

\* truthiness of a number-or-undefined: undefined, NaN and 0 are falsy
Truthy(x) == IsNum(x) /\ x # 0
\* a || b
JsOr(a, b) == IF Truthy(a) THEN a ELSE b
\* a * b, a - b over numbers; undefined or NaN operands give NaN
JsMul(a, b) == IF IsNum(a) /\ IsNum(b) THEN a * b ELSE NaN
JsSub(a, b) == IF IsNum(a) /\ IsNum(b) THEN a - b ELSE NaN
\* relational operators: any comparison with undefined / NaN is false
JsLt(a, b) == IsNum(a) /\ IsNum(b) /\ a < b
JsLe(a, b) == IsNum(a) /\ IsNum(b) /\ a <= b
JsGt(a, b) == IsNum(a) /\ IsNum(b) /\ a > b
JsGe(a, b) == IsNum(a) /\ IsNum(b) /\ a >= b
\* (a / b) * 100 as an exact fraction <<numerator, denominator>>
NaNFrac == <<NaN, 1>>
JsPercent(a, b) == IF IsNum(a) /\ IsNum(b) /\ b # 0 THEN <<a * 100, b>> ELSE NaNFrac
FracEq(f, g) == IsNum(f[1]) /\ IsNum(g[1]) /\ f[1] * g[2] = g[1] * f[2]

\* ---------------------------------------------------------------- symbols
\* the pairs that crowd a ticker board: ALT1/USDT, ALT2/USDT, ...
AltPair(i) == "ALT" \o ToString(i) \o "/USDT"
AltNumbers == 1..TOP_CANDIDATES
IsAltPair(symbol) == \E i \in AltNumbers : symbol = AltPair(i)

BaseOf(symbol) ==
    CASE symbol = "LTC/USDT" -> "LTC"
      [] symbol = "FOO/USDT" -> "FOO"
      [] symbol = "BTC/USDT" -> "BTC"
      [] symbol = "LTC/BTC" -> "LTC"
\* t.symbol.replace('/', '')
StripSlash(symbol) ==
    CASE symbol = "LTC/USDT" -> "LTCUSDT"
      [] symbol = "FOO/USDT" -> "FOOUSDT"
      [] symbol = "BTC/USDT" -> "BTCUSDT"
      [] symbol = "LTC/BTC" -> "LTCBTC"
      [] OTHER -> "ALT" \o ToString(CHOOSE i \in AltNumbers : symbol = AltPair(i)) \o "USDT"
\* t.symbol.endsWith('/USDT')
EndsWithUSDT(symbol) == symbol \in {"LTC/USDT", "FOO/USDT", "BTC/USDT"} \/ IsAltPair(symbol)
\* `${currency}/USDT`
PairOf(currency) ==
    CASE currency = "LTC" -> "LTC/USDT"
      [] currency = "FOO" -> "FOO/USDT"
      [] currency = "BTC" -> "BTC/USDT"

\* --------------------------------------------------------------- settings
\* the settings object handed to the constructor at server start-up; same
\* keys, values scaled to small integers (the periods and the interval are
\* carried but never computed with)
DefaultSettings ==
    [maxCoinPrice |-> 8, tradeAmountUSDT |-> 40, scanIntervalMs |-> 7000,
     targetProfitPercent |-> 50, stopLossPercent |-> 50, maxOpenTrades |-> 2,
     rsiPeriod |-> 14, rsiBuyThreshold |-> 30, smaShortPeriod |-> 9,
     smaLongPeriod |-> 21, useTrailingStop |-> FALSE,
     trailingStopArmPercentage |-> 10, trailingStopOffsetPercentage |-> 25]

\* { ...a, ...b }
Merge(a, b) ==
    [k \in (DOMAIN a) \cup (DOMAIN b) |-> IF k \in DOMAIN b THEN b[k] ELSE a[k]]

\* ------------------------------------------------------- sequence helpers
\* the comparators of the engine: (b[f] || 0) - (a[f] || 0) < 0 when desc,
\* a[f] - b[f] < 0 otherwise
Before(a, b, f, desc) ==
    IF desc THEN JsLt(JsOr(b[f], 0), JsOr(a[f], 0)) ELSE JsLt(a[f], b[f])

RECURSIVE InsertSorted(_, _, _, _)
\* insert x behind every element it does not have to precede
InsertSorted(x, sorted, f, desc) ==
    IF sorted = <<>> THEN <<x>>
    ELSE IF Before(x, Head(sorted), f, desc) THEN <<x>> \o sorted
         ELSE <<Head(sorted)>> \o InsertSorted(x, Tail(sorted), f, desc)

RECURSIVE SortBy(_, _, _)
\* Array.prototype.sort (stable) on field f, descending or ascending
SortBy(seq, f, desc) ==
    IF seq = <<>> THEN <<>>
    ELSE InsertSorted(seq[Len(seq)], SortBy(SubSeq(seq, 1, Len(seq) - 1), f, desc), f, desc)

\* Array.prototype.slice(0, n)
Slice0(seq, n) == SubSeq(seq, 1, IF Len(seq) < n THEN Len(seq) ELSE n)

\* indices of the entries of a sequence of records with the given symbol
IndexOf(seq, symbol) == {i \in 1..Len(seq) : seq[i].symbol = symbol}
\* Map.has / Array.find(x => x.symbol === symbol) !== undefined
Has(seq, symbol) == IndexOf(seq, symbol) # {}
\* Map.get / Array.find: the first entry with the symbol
Find(seq, symbol) == seq[CHOOSE i \in IndexOf(seq, symbol) : \A j \in IndexOf(seq, symbol) : i <= j]
\* Map.delete
MapDelete(seq, symbol) == SelectSeq(seq, LAMBDA e : e.symbol # symbol)
\* Map.set: an existing key keeps its place, a new key goes last
MapSet(seq, entry) ==
    IF Has(seq, entry.symbol)
    THEN [i \in 1..Len(seq) |-> IF seq[i].symbol = entry.symbol THEN entry ELSE seq[i]]
    ELSE Append(seq, entry)

\* ------------------------------------------------------------ environment
\* currencies of a balance response, in Object.keys order
Currencies == <<"USDT", "LTC", "FOO">>
\* one currency's entry of a ccxt balance: total, free, used
Holding(total, free) == [total |-> total, free |-> free, used |-> total - free]

\* indicator results the scan can obtain for a ticker: the last values of
\* RSI.calculate / SMA.calculate over the closes ("none": fewer closes than
\* the period, so every indicator stays undefined; "throw": fetchOHLCV fails)
Indicators(ind) ==
    CASE ind = "buy"  -> [rsi |-> 25, smaShort |-> 10, smaLong |-> 5]
      [] ind = "hold" -> [rsi |-> 45, smaShort |-> 5, smaLong |-> 10]
      [] OTHER        -> [rsi |-> Undefined, smaShort |-> Undefined, smaLong |-> Undefined]

Ticker(symbol, last, quoteVolume, ind) ==
    [symbol |-> symbol, last |-> last, baseVolume |-> 1000,
     quoteVolume |-> quoteVolume, ind |-> ind]

\* tickers every board carries: an excluded pair with a buy signal and a pair
\* not quoted in USDT
FixedTickers ==
    <<Ticker("BTC/USDT", 2, 900, "buy"), Ticker("LTC/BTC", 2, 800, "buy")>>

\* the order the exchange reports for a filled market order
OrderResponse(kind, id, amount, price) ==
    CASE kind \in {"full", "repeat"} ->
           [id |-> id, price |-> price, average |-> price, filled |-> amount,
            amount |-> amount, cost |-> amount * price]
      [] kind = "average" ->
           [id |-> id, price |-> Undefined, average |-> price, filled |-> amount,
            amount |-> Undefined, cost |-> amount * price]
      [] kind = "slip" ->
           [id |-> id, price |-> price + 1, average |-> price + 1,
            filled |-> amount - 1, amount |-> amount,
            cost |-> (amount - 1) * (price + 1)]
      [] kind = "priceAmount" ->
           [id |-> id, price |-> price, average |-> Undefined, filled |-> Undefined,
            amount |-> amount, cost |-> Undefined]
      [] OTHER ->
           [id |-> Undefined, price |-> Undefined, average |-> Undefined,
            filled |-> Undefined, amount |-> Undefined, cost |-> Undefined]

\* ------------------------------------------------------------------ state
VARIABLES
    status,         \* BotStatus
    settings,       \* BotSettings
    tradeLedger,    \* CompletedTrade[], newest first
    activeTrades,   \* Map<symbol, BotTradeData> in insertion order
    marketData,     \* Coin[]
    portfolio,      \* PortfolioItem[]
    usdtBalance,
    scanTimer,      \* interval (ms) of the timer the field holds, 0 when null
    liveTimers,     \* interval timers that exist (set and not cleared)
    isScanning,
    isStopping,
    mutex,          \* "free", or who holds it: "loop" / "init"
    waitq,          \* callers waiting in mutex.runExclusive, FIFO
    startCont,      \* start() calls whose executeLoop() call is still due
    running,        \* iterations between isScanning = true and finally
    pc,             \* where the iteration is suspended: idle/refresh/scan/sell/buy
    sellQueue,      \* symbols the sell loop has still to visit
    pendingOrder,   \* the order the iteration awaits
    initPc,         \* initialize(): new/gateway/queued/refresh/done
    db,             \* bot_settings, active_trades, trade_ledger
    now,            \* Date.now()
    orderSeq,       \* orders the exchange has filled (its id counter)
    restarts,       \* constructions after the first
    updates,        \* updateSettings calls so far
    outages,        \* steps in which the store threw
    keyCheck,       \* last answer of validateApiKeyPermissions: unchecked/safe/unsafe
    logs,           \* what the last step passed to log()
    admission       \* what the buy half decided in the last step: "" (not run),
                    \* "none" (no candidate), "refused", "order"

engine == <<status, settings, tradeLedger, activeTrades, marketData, portfolio,
            usdtBalance, scanTimer, liveTimers, isScanning, isStopping>>
sched == <<mutex, waitq, startCont, running, pc, sellQueue, pendingOrder, initPc>>
world == <<db, now, orderSeq, restarts, updates, outages, keyCheck>>
vars == <<engine, sched, world, logs, admission>>

Log(type, message) == [type |-> type, message |-> message]
NoOrder == [side |-> "none"]
NoSettings == <<>>
Request(kind, hard, patch) == [kind |-> kind, hard |-> hard, patch |-> patch]

\* ------------------------------------------------------- persistence store
\* JSON.stringify then JSON.parse of a number-valued field: NaN becomes null
JsNull == -1000003
JsonNumber(x) == IF x = NaN THEN JsNull ELSE x
JsonTrade(t) ==
    [t EXCEPT !.purchasePrice = JsonNumber(@), !.amount = JsonNumber(@),
              !.highestPriceSinceBuy = JsonNumber(@)]
JsonRow(row) ==
    IF row.type = "SELL"
    THEN [row EXCEPT !.price = JsonNumber(@), !.cost = JsonNumber(@),
                     !.profitAmount = JsonNumber(@),
                     !.profitPercent = <<JsonNumber(@[1]), @[2]>>]
    ELSE [row EXCEPT !.price = JsonNumber(@), !.cost = JsonNumber(@)]

JsonSettings(s) ==
    [k \in DOMAIN s |-> IF k = "useTrailingStop" THEN s[k] ELSE JsonNumber(s[k])]

\* the row with id 1 is kept when there is one
KeepFirstSettings(row, s) == IF row = NoSettings THEN JsonSettings(s) ELSE row
\* INSERT OR REPLACE INTO bot_settings (id, data) VALUES (1, ?)
SaveSettings(row, s) == JsonSettings(s)
\* SELECT data FROM bot_settings WHERE id = 1: the row, or undefined (NoSettings)
LoadSettings(row) == row
\* INSERT OR REPLACE INTO active_trades: the old row goes, the new one is last
SaveActiveTrade(rows, trade) == Append(MapDelete(rows, trade.symbol), JsonTrade(trade))
\* the row is left in the table
KeepActiveTrade(rows, symbol) == rows
\* DELETE FROM active_trades WHERE symbol = ?
DeleteActiveTrade(rows, symbol) == MapDelete(rows, symbol)
\* SELECT symbol, data FROM active_trades
LoadActiveTrades(rows) == rows
\* INSERT OR REPLACE INTO trade_ledger: a row with the same (non-null) id goes
SaveLedgerItem(rows, trade) ==
    Append(SelectSeq(rows, LAMBDA r : ~(IsNum(trade.id) /\ r.id = trade.id)),
           JsonRow(trade))
\* SELECT data FROM trade_ledger ORDER BY timestamp DESC LIMIT ?
LoadLedger(rows, limit) == Slice0(SortBy(rows, "timestamp", TRUE), limit)

\* --------------------------------------------------------- refreshAccount
\* the PortfolioItem of one currency of the balance
PortfolioItemOf(currency, holding, trades) ==
    [symbol |-> PairOf(currency), baseAsset |-> currency,
     amount |-> JsOr(holding.free, 0), lockedAmount |-> JsOr(holding.used, 0),
     avgPurchasePrice |-> IF Has(trades, PairOf(currency))
                          THEN Find(trades, PairOf(currency)).purchasePrice
                          ELSE Undefined]

RECURSIVE PortfolioItems(_, _, _)
\* the items pushed by the loop over Object.keys(balance.total)
PortfolioItems(currencies, balance, trades) ==
    IF currencies = <<>> THEN <<>>
    ELSE LET currency == Head(currencies)
             holding == balance[currency]
             rest == PortfolioItems(Tail(currencies), balance, trades)
         IN IF Truthy(holding.total) /\ holding.total > 0 /\ currency # "USDT"
            THEN <<PortfolioItemOf(currency, holding, trades)>> \o rest
            ELSE rest

\* usdtBalance after the loop: assigned only under total && total > 0
UsdtAfterRefresh(balance, previous) ==
    IF Truthy(balance["USDT"].total) /\ balance["USDT"].total > 0
    THEN JsOr(balance["USDT"].free, 0)
    ELSE previous

\* ------------------------------------------------------------- scanMarket
\* no symbol is held back
ExcludedNever(symbol) == FALSE
\* EXCLUDED_SYMBOLS_BY_DEFAULT.some(ex => symbol.replace('/', '') === ex)
Excluded(symbol) == \E ex \in EXCLUDED_SYMBOLS_BY_DEFAULT : StripSlash(symbol) = ex

\* the filter over the tickers
IsCandidate(t) ==
    /\ EndsWithUSDT(t.symbol)
    /\ Truthy(t.baseVolume) /\ t.baseVolume > 0
    /\ t.last # Undefined
    /\ ~Excluded(t.symbol)

TopCandidates(tickers) ==
    Slice0(SortBy(SelectSeq(tickers, IsCandidate), "quoteVolume", TRUE), TOP_CANDIDATES)

\* the Coin built for a candidate whose OHLCV fetch succeeded
CoinOf(t) ==
    [symbol |-> t.symbol, price |-> t.last, quoteVolume |-> JsOr(t.quoteVolume, 0),
     rsi |-> Indicators(t.ind).rsi, smaShort |-> Indicators(t.ind).smaShort,
     smaLong |-> Indicators(t.ind).smaLong]

RECURSIVE Coins(_)
\* results.filter(c => c !== null): a failed OHLCV fetch yields null
Coins(candidates) ==
    IF candidates = <<>> THEN <<>>
    ELSE IF Head(candidates).ind = "throw" THEN Coins(Tail(candidates))
         ELSE <<CoinOf(Head(candidates))>> \o Coins(Tail(candidates))

\* marketData after a successful scan
ScanResult(tickers) == SortBy(Coins(TopCandidates(tickers)), "price", FALSE)

\* ------------------------------------------- executeStrategy: sell decision
\* the price is stored without the comparison with the highest so far
HighestAfterFollowsPrice(tradeData, currentPrice, s) ==
    IF s.useTrailingStop THEN currentPrice ELSE tradeData.highestPriceSinceBuy
\* tradeData.highestPriceSinceBuy after the trailing-stop bookkeeping
HighestAfter(tradeData, currentPrice, s) ==
    IF s.useTrailingStop
       /\ JsGt(currentPrice, JsOr(tradeData.highestPriceSinceBuy, tradeData.purchasePrice))
    THEN currentPrice
    ELSE tradeData.highestPriceSinceBuy

\* purchasePrice * (1 - stopLossPercent / 100), times 100
InitialStopLossPrice100(tradeData, s) ==
    tradeData.purchasePrice * (100 - s.stopLossPercent)

\* highestPriceSinceBuy > purchasePrice * (1 + trailingStopArmPercentage / 100)
TrailingArmed(tradeData, s) ==
    /\ s.useTrailingStop
    /\ Truthy(tradeData.highestPriceSinceBuy)
    /\ tradeData.highestPriceSinceBuy * 100
         > tradeData.purchasePrice * (100 + s.trailingStopArmPercentage)

\* highestPriceSinceBuy * (1 - trailingStopOffsetPercentage / 100), times 100
TrailingStopPrice100(tradeData, s) ==
    tradeData.highestPriceSinceBuy * (100 - s.trailingStopOffsetPercentage)

\* effectiveStopLossPrice, times 100 (tradeData after HighestAfter)
EffectiveStopLossPrice100(tradeData, s) ==
    IF TrailingArmed(tradeData, s)
    THEN TrailingStopPrice100(tradeData, s)
    ELSE InitialStopLossPrice100(tradeData, s)

\* purchasePrice * (1 + targetProfitPercent / 100), times 100
TargetPrice100(tradeData, s) ==
    tradeData.purchasePrice * (100 + s.targetProfitPercent)

\* the stop loss is tested before the target
SellReasonStopFirst(tradeData, currentPrice, s) ==
    IF currentPrice * 100 <= EffectiveStopLossPrice100(tradeData, s) THEN "Stop Loss"
    ELSE IF currentPrice * 100 >= TargetPrice100(tradeData, s) THEN "Take Profit"
    ELSE ""
\* shouldSell / reason: "" when the trade is kept
SellReason(tradeData, currentPrice, s) ==
    IF currentPrice * 100 >= TargetPrice100(tradeData, s) THEN "Take Profit"
    ELSE IF currentPrice * 100 <= EffectiveStopLossPrice100(tradeData, s) THEN "Stop Loss"
    ELSE ""

\* value < MIN_TRADE_VALUE_USDT: the sell is skipped
SellIsDust(amountToSell, currentPrice) == amountToSell * currentPrice < MIN_TRADE_VALUE_USDT

\* the CompletedTrade of a filled sell
SellRow(order, tradeData, symbol, currentPrice, time) ==
    LET cost == JsOr(order.cost, JsMul(order.amount, order.price))
        profit == JsSub(cost, JsMul(tradeData.purchasePrice, order.amount))
        profitPercent == JsPercent(profit, JsMul(tradeData.purchasePrice, order.amount))
    IN [id |-> order.id, timestamp |-> time, type |-> "SELL", pair |-> symbol,
        price |-> JsOr(order.price, currentPrice), amount |-> order.amount,
        cost |-> cost, orderId |-> order.id, profitAmount |-> profit,
        profitPercent |-> profitPercent,
        purchasePriceForSell |-> tradeData.purchasePrice]

\* -------------------------------------------- executeStrategy: buy decision
BuyFilter(c, trades, s) ==
    /\ ~Has(trades, c.symbol)
    /\ ~JsGt(c.price, s.maxCoinPrice)
    /\ ~Excluded(c.symbol)
    /\ ~(c.rsi = Undefined \/ c.smaShort = Undefined \/ c.smaLong = Undefined)
    /\ ~JsGe(c.rsi, s.rsiBuyThreshold)
    /\ ~JsLe(c.smaShort, c.smaLong)

PotentialBuys(coins, trades, s) ==
    SortBy(SelectSeq(coins, LAMBDA c : BuyFilter(c, trades, s)), "quoteVolume", TRUE)

\* only the balance is tested
BuyAdmittedWithoutCount(trades, balance, s) == ~(balance < s.tradeAmountUSDT)
\* only the number of open trades is tested
BuyAdmittedWithoutBalance(trades, balance, s) == ~(Len(trades) >= s.maxOpenTrades)
\* the two early returns in front of the buy order
BuyAdmitted(trades, balance, s) ==
    /\ ~(Len(trades) >= s.maxOpenTrades)
    /\ ~(balance < s.tradeAmountUSDT)

\* tradeAmountUSDT / candidate.price (the model's prices divide its amounts)
BuyAmount(s, price) == s.tradeAmountUSDT \div price

\* the BotTradeData of a filled buy
TradeRecord(order, candidate, time) ==
    LET realPrice == JsOr(order.average, JsOr(order.price, candidate.price))
        filledAmount == JsOr(order.filled, order.amount)
    IN [symbol |-> candidate.symbol, purchasePrice |-> realPrice,
        amount |-> filledAmount, timestamp |-> time,
        highestPriceSinceBuy |-> realPrice]

\* the CompletedTrade of a filled buy
BuyRow(order, tradeRecord, time) ==
    [id |-> order.id, timestamp |-> time, type |-> "BUY", pair |-> tradeRecord.symbol,
     price |-> tradeRecord.purchasePrice, amount |-> tradeRecord.amount,
     cost |-> JsOr(order.cost, JsMul(tradeRecord.amount, tradeRecord.purchasePrice)),
     orderId |-> order.id]

\* ------------------------------- executeStrategy between two suspensions
\* What a run of executeStrategy changes until it awaits placeOrder, returns
\* or throws: st carries activeTrades, the active_trades rows and the logs.
Segment(trades, rows, lg) ==
    [activeTrades |-> trades, dbTrades |-> rows, logs |-> lg,
     result |-> "done", order |-> NoOrder, rest |-> <<>>, buy |-> ""]

PriceOf(coins, symbol) ==
    IF Has(coins, symbol) THEN Find(coins, symbol).price ELSE Undefined

\* !portfolioItem || portfolioItem.amount <= 0
NoBalance(items, symbol) ==
    ~Has(items, symbol) \/ Find(items, symbol).amount <= 0

RECURSIVE SellLoop(_, _, _, _)
\* the for-loop over activeTrades.entries(), from the entry of Head(queue) on
SellLoop(queue, st, coins, dbUp) ==
    IF queue = <<>> THEN st
    ELSE
    LET symbol == Head(queue)
        rest == Tail(queue)
        tradeData == Find(st.activeTrades, symbol)
        currentPrice == PriceOf(coins, symbol)
    IN
    IF ~Truthy(currentPrice) THEN SellLoop(rest, st, coins, dbUp)
    ELSE IF NoBalance(portfolio, symbol) THEN
        LET st1 == [st EXCEPT !.logs = Append(@, Log("WARNING", "no balance found")),
                              !.activeTrades = MapDelete(@, symbol)]
        IN IF dbUp
           THEN SellLoop(rest, [st1 EXCEPT !.dbTrades = DeleteActiveTrade(@, symbol)], coins, dbUp)
           ELSE [st1 EXCEPT !.result = "throw"]
    ELSE
    LET highest == HighestAfter(tradeData, currentPrice, settings)
        raised == highest # tradeData.highestPriceSinceBuy
        updated == [tradeData EXCEPT !.highestPriceSinceBuy = highest]
        st1 == IF raised THEN [st EXCEPT !.activeTrades = MapSet(@, updated)] ELSE st
    IN
    IF raised /\ ~dbUp THEN [st1 EXCEPT !.result = "throw"]
    ELSE
    LET st2 == IF raised THEN [st1 EXCEPT !.dbTrades = SaveActiveTrade(@, updated)] ELSE st1
        reason == SellReason(updated, currentPrice, settings)
        amountToSell == Find(portfolio, symbol).amount
        st3 == [st2 EXCEPT !.logs = Append(@, Log("INFO", "Selling: " \o reason))]
    IN
    IF reason = "" THEN SellLoop(rest, st2, coins, dbUp)
    ELSE IF SellIsDust(amountToSell, currentPrice)
    THEN SellLoop(rest, [st3 EXCEPT !.logs = Append(@, Log("WARNING", "Skipping sell"))], coins, dbUp)
    ELSE [st3 EXCEPT !.result = "order", !.rest = rest,
                     !.order = [side |-> "sell", symbol |-> symbol,
                                amount |-> amountToSell, price |-> currentPrice,
                                reason |-> reason]]

\* the buy half of executeStrategy, up to its placeOrder call
BuyStep(st, coins) ==
    LET potentialBuys == PotentialBuys(coins, st.activeTrades, settings)
        candidate == potentialBuys[1]
    IN IF potentialBuys = <<>> THEN [st EXCEPT !.buy = "none"]
       ELSE IF ~BuyAdmitted(st.activeTrades, usdtBalance, settings)
       THEN [st EXCEPT !.buy = "refused"]
       ELSE [st EXCEPT !.logs = Append(@, Log("INFO", "Buying")),
                       !.result = "order", !.buy = "order",
                       !.order = [side |-> "buy", symbol |-> candidate.symbol,
                                  amount |-> BuyAmount(settings, candidate.price),
                                  price |-> candidate.price, reason |-> ""]]

\* the sell loop and the buy half go on while the engine is stopping
StrategyDespiteStopping(queue, st, coins, dbUp) ==
    LET sold == SellLoop(queue, st, coins, dbUp)
    IN IF sold.result = "done" THEN BuyStep(sold, coins) ELSE sold
\* the sell loop from queue on (it breaks at once when isStopping), then the
\* buy half (which returns at once when isStopping)
Strategy(queue, st, coins, dbUp) ==
    IF isStopping THEN st
    ELSE LET sold == SellLoop(queue, st, coins, dbUp)
         IN IF sold.result = "done" THEN BuyStep(sold, coins) ELSE sold

\* symbols of the map in iteration order
Keys(trades) == [i \in 1..Len(trades) |-> trades[i].symbol]

\* the lock is handed on while the iteration still awaits the gateway
MutexReleasedEarly == "free"
\* the lock the iteration holds from runExclusive until its callback settles
MutexWhileIterating == "loop"

\* the id the exchange gives the order it fills: a fresh one, or ("repeat") the
\* id it gave to the order before (ids that are unique per symbol only, a
\* gateway double with a fixed id); the engine takes order.id as it comes
OrderId(kind) == IF kind = "repeat" /\ orderSeq > 0 THEN orderSeq ELSE orderSeq + 1

\* the first waiter runs whether or not the lock is held
AcquireWithoutWaiting == TRUE
\* mutex.runExclusive grants the lock to the first waiter once it is free
CanAcquire == mutex = "free"

\* the flag stays set when the iteration ends
ScanningLeftSet == TRUE
\* finally { this.isScanning = false }
ScanningAfterLoop == FALSE

\* an exception that reaches the catch of executeLoop puts the engine in ERROR
StatusErrorAfterLoop(threw) == IF threw THEN "ERROR" ELSE status
\* the status when the iteration goes on or ends: the catch of executeLoop
\* logs, the finally clears isScanning, neither calls setStatus
StatusAfterLoop(threw) == status

\* The iteration goes on after a segment st: it awaits the order of the
\* segment, or ends (an exception reaches the catch of executeLoop first) and
\* the finally clears isScanning and the lock is released.
Continue(st, ledgerRows) ==
    /\ status' = StatusAfterLoop(st.result = "throw")
    /\ activeTrades' = st.activeTrades
    /\ admission' = st.buy
    /\ db' = [db EXCEPT !.trades = st.dbTrades, !.ledger = ledgerRows]
    /\ IF st.result = "order"
       THEN /\ pc' = st.order.side
            /\ pendingOrder' = st.order
            /\ sellQueue' = st.rest
            /\ logs' = st.logs
            /\ UNCHANGED <<isScanning, mutex, running>>
       ELSE /\ pc' = "idle"
            /\ pendingOrder' = NoOrder
            /\ sellQueue' = <<>>
            /\ logs' = IF st.result = "throw"
                       THEN Append(st.logs, Log("ERROR", "Error in bot loop"))
                       ELSE st.logs
            /\ isScanning' = ScanningAfterLoop
            /\ mutex' = "free"
            /\ running' = running - 1

\* the iteration ends without touching the trades
Finish(lg) ==
    /\ status' = StatusAfterLoop(FALSE)
    /\ pc' = "idle"
    /\ admission' = ""
    /\ pendingOrder' = NoOrder
    /\ sellQueue' = <<>>
    /\ logs' = lg
    /\ isScanning' = ScanningAfterLoop
    /\ mutex' = "free"
    /\ running' = running - 1

\* ------------------------------------------------------------ constructor
\* the fields the constructor computes from the store
ConstructedSettings(store) ==
    IF LoadSettings(store.settings) = NoSettings THEN DefaultSettings
    ELSE Merge(DefaultSettings, LoadSettings(store.settings))
ConstructedTrades(store) ==
    IF Len(LoadActiveTrades(store.trades)) > 0 THEN LoadActiveTrades(store.trades) ELSE <<>>
ConstructedLedger(store) == LoadLedger(store.ledger, 50)

Init ==
    /\ db = [settings |-> NoSettings, trades |-> <<>>, ledger |-> <<>>]
    /\ now = 0
    /\ orderSeq = 0
    /\ restarts = 0
    /\ updates = 0
    /\ outages = 0
    /\ status = "INITIALIZING"
    /\ settings = ConstructedSettings(db)
    /\ activeTrades = ConstructedTrades(db)
    /\ tradeLedger = ConstructedLedger(db)
    /\ marketData = <<>>
    /\ portfolio = <<>>
    /\ usdtBalance = 0
    /\ scanTimer = 0
    /\ liveTimers = 0
    /\ isScanning = FALSE
    /\ isStopping = FALSE
    /\ mutex = "free"
    /\ waitq = <<>>
    /\ startCont = 0
    /\ running = 0
    /\ pc = "idle"
    /\ sellQueue = <<>>
    /\ pendingOrder = NoOrder
    /\ initPc = "new"
    /\ keyCheck = "unchecked"
    /\ logs = <<>>
    /\ admission = ""

\* ------------------------------------------------------------- scheduling
\* the statements of the store succeed in this step (dbUp) or throw
StoreAnswers(dbUp) ==
    IF dbUp THEN UNCHANGED outages
    ELSE outages < MaxOutages /\ outages' = outages + 1

\* a microtask is due: the lock can be handed over, or a start() continues
MicroPending == (CanAcquire /\ waitq # <<>>) \/ startCont > 0
Quiescent == mutex = "free" /\ waitq = <<>> /\ startCont = 0 /\ initPc \in {"new", "done"}
\* a macrotask may run; calm: the environment waits for the engine to settle
MayRun(calm) == ~MicroPending /\ (calm => Quiescent)
\* room in the queue for one more command
Room == Len(SelectSeq(waitq, LAMBDA r : r.kind # "loop")) < MaxQueue
\* executeLoop() calls that start() calls already made still owe
OwedLoops == startCont + Len(SelectSeq(waitq, LAMBDA r : r.kind = "start"))

\* the old timer is never cleared
TimersWithoutClear == liveTimers
\* setInterval / clearInterval on this.scanTimer
TimersAfterClear == IF scanTimer # 0 THEN liveTimers - 1 ELSE liveTimers

\* executeLoop() up to its await: the isScanning fast path, then runExclusive
ExecuteLoopCall ==
    /\ now' = now + 1
    /\ waitq' = IF isScanning THEN waitq ELSE Append(waitq, Request("loop", FALSE, <<>>))

\* ------------------------------------------------------------- initialize
\* initialize() up to its await of exchange.initialize(); the server calls it
\* once, right after the construction and before it serves any command
CallInitialize(calm) ==
    /\ admission' = ""
    /\ MayRun(calm)
    /\ initPc = "new"
    /\ status = "INITIALIZING" /\ waitq = <<>>
    /\ initPc' = "gateway"
    /\ logs' = <<Log("INFO", "Initializing Bot Engine...")>>
    /\ UNCHANGED <<engine, mutex, waitq, startCont, running, pc, sellQueue,
                   pendingOrder, world>>

\* CcxtExchange.initialize(): throws when loadMarkets fails or the key is unsafe
ExchangeInitializeThrows(marketsOk, isSafe) == ~marketsOk \/ ~isSafe

\* exchange.initialize() settles
InitGatewayReturn(marketsOk, isSafe) ==
    /\ admission' = ""
    /\ ~MicroPending
    /\ initPc = "gateway"
    /\ keyCheck' = IF ~marketsOk THEN keyCheck ELSE IF isSafe THEN "safe" ELSE "unsafe"
    /\ IF ExchangeInitializeThrows(marketsOk, isSafe)
       THEN /\ status' = "ERROR"
            /\ initPc' = "done"
            /\ logs' = <<Log("ERROR", "Initialization failed")>>
            /\ UNCHANGED waitq
       ELSE /\ status' = "STOPPED"
            /\ initPc' = "queued"
            /\ logs' = <<Log("INFO", "Bot Engine Initialized. Ready to start.")>>
            /\ waitq' = Append(waitq, Request("init", FALSE, <<>>))
    /\ UNCHANGED <<settings, tradeLedger, activeTrades, marketData, portfolio,
                   usdtBalance, scanTimer, liveTimers, isScanning, isStopping,
                   mutex, startCont, running, pc, sellQueue, pendingOrder,
                   db, now, orderSeq, restarts, updates, outages>>

\* the lock is granted to initialize(): it awaits getBalance
InitAcquire ==
    /\ admission' = ""
    /\ CanAcquire
    /\ waitq # <<>> /\ Head(waitq).kind = "init"
    /\ waitq' = Tail(waitq)
    /\ mutex' = "init"
    /\ initPc' = "refresh"
    /\ logs' = <<>>
    /\ UNCHANGED <<engine, startCont, running, pc, sellQueue, pendingOrder, world>>

\* refreshAccount() once getBalance has settled (~balance.ok: it threw)
RefreshEffect(balance, lg) ==
    /\ admission' = ""
    /\ IF ~balance.ok
       THEN /\ logs' = Append(lg, Log("ERROR", "Failed to refresh account"))
            /\ UNCHANGED <<portfolio, usdtBalance>>
       ELSE /\ portfolio' = PortfolioItems(Currencies, balance, activeTrades)
            /\ usdtBalance' = UsdtAfterRefresh(balance, usdtBalance)
            /\ logs' = lg

\* getBalance settles for initialize()
InitRefreshReturn(balance) ==
    /\ ~MicroPending
    /\ mutex = "init" /\ initPc = "refresh"
    /\ RefreshEffect(balance, <<>>)
    /\ mutex' = "free"
    /\ initPc' = "done"
    /\ UNCHANGED <<status, settings, tradeLedger, activeTrades, marketData,
                   scanTimer, liveTimers, isScanning, isStopping,
                   waitq, startCont, running, pc, sellQueue, pendingOrder, world>>

\* ------------------------------------------ start / stop / updateSettings
\* start() up to its await of the lock
CallStart(calm) ==
    /\ admission' = ""
    /\ MayRun(calm) /\ Room
    /\ now + OwedLoops < MaxTime
    /\ waitq' = Append(waitq, Request("start", FALSE, <<>>))
    /\ logs' = <<>>
    /\ UNCHANGED <<engine, mutex, startCont, running, pc, sellQueue, pendingOrder,
                   initPc, world>>

\* start() leaves the flag as stop() set it
StoppingLeftByStart == isStopping
\* this.isStopping = false in the critical section of start()
StoppingAfterStart == FALSE

\* the critical section of start()
RunStart ==
    /\ admission' = ""
    /\ CanAcquire
    /\ waitq # <<>> /\ Head(waitq).kind = "start"
    /\ waitq' = Tail(waitq)
    /\ startCont' = startCont + 1
    /\ IF status = "RUNNING"
       THEN /\ logs' = <<Log("WARNING", "Bot is already running.")>>
            /\ UNCHANGED <<status, isStopping, scanTimer, liveTimers>>
       ELSE /\ logs' = <<Log("INFO", "Starting Bot...")>>
            /\ isStopping' = StoppingAfterStart
            /\ status' = "RUNNING"
            /\ liveTimers' = TimersAfterClear + 1
            /\ scanTimer' = settings.scanIntervalMs
    /\ UNCHANGED <<settings, tradeLedger, activeTrades, marketData, portfolio,
                   usdtBalance, isScanning, mutex, running, pc, sellQueue,
                   pendingOrder, initPc, world>>

\* start() after its critical section: this.executeLoop()
StartContinuation ==
    /\ admission' = ""
    /\ startCont > 0
    /\ startCont' = startCont - 1
    /\ ExecuteLoopCall
    /\ logs' = <<>>
    /\ UNCHANGED <<engine, mutex, running, pc, sellQueue, pendingOrder, initPc,
                   db, orderSeq, restarts, updates, outages, keyCheck>>

\* stop(hard) up to its await of the lock
CallStop(calm, hard) ==
    /\ admission' = ""
    /\ MayRun(calm) /\ Room
    /\ isStopping' = TRUE
    /\ waitq' = Append(waitq, Request("stop", hard, <<>>))
    /\ logs' = <<Log("INFO", "Stopping Bot...")>>
    /\ UNCHANGED <<status, settings, tradeLedger, activeTrades, marketData,
                   portfolio, usdtBalance, scanTimer, liveTimers, isScanning,
                   mutex, startCont, running, pc, sellQueue, pendingOrder,
                   initPc, world>>

\* the critical section of stop()
RunStop ==
    /\ admission' = ""
    /\ CanAcquire
    /\ waitq # <<>> /\ Head(waitq).kind = "stop"
    /\ waitq' = Tail(waitq)
    /\ liveTimers' = TimersAfterClear
    /\ scanTimer' = 0
    /\ status' = "STOPPED"
    /\ logs' = IF Head(waitq).hard THEN <<Log("WARNING", "Hard stop executed.")>> ELSE <<>>
    /\ UNCHANGED <<settings, tradeLedger, activeTrades, marketData, portfolio,
                   usdtBalance, isScanning, isStopping, mutex, startCont, running,
                   pc, sellQueue, pendingOrder, initPc, world>>

\* updateSettings(newSettings) up to its await of the lock
CallUpdateSettings(calm, newSettings) ==
    /\ admission' = ""
    /\ MayRun(calm) /\ Room
    /\ updates < MaxUpdates
    /\ updates' = updates + 1
    /\ waitq' = Append(waitq, Request("update", FALSE, newSettings))
    /\ logs' = <<>>
    /\ UNCHANGED <<engine, mutex, startCont, running, pc, sellQueue, pendingOrder,
                   initPc, db, now, orderSeq, restarts, outages, keyCheck>>

\* the critical section of updateSettings(): when saveSettings throws the
\* merged settings stay in memory and nothing after it runs
\* setInterval(..., this.settings.scanIntervalMs) after the merge
RestartInterval(old, new) == new.scanIntervalMs

RunUpdate(dbUp) ==
    /\ StoreAnswers(dbUp)
    /\ admission' = ""
    /\ CanAcquire
    /\ waitq # <<>> /\ Head(waitq).kind = "update"
    /\ waitq' = Tail(waitq)
    /\ settings' = Merge(settings, Head(waitq).patch)
    /\ IF dbUp
       THEN /\ db' = [db EXCEPT !.settings = SaveSettings(@, settings')]
            /\ logs' = <<Log("INFO", "Settings updated.")>>
            /\ IF status = "RUNNING" /\ scanTimer # 0
               THEN /\ liveTimers' = TimersAfterClear + 1
                    /\ scanTimer' = RestartInterval(settings, settings')
               ELSE UNCHANGED <<liveTimers, scanTimer>>
       ELSE /\ logs' = <<>>
            /\ UNCHANGED <<db, liveTimers, scanTimer>>
    /\ UNCHANGED <<status, tradeLedger, activeTrades, marketData, portfolio,
                   usdtBalance, isScanning, isStopping, mutex,
                   startCont, running, pc, sellQueue, pendingOrder, initPc,
                   now, orderSeq, restarts, updates, keyCheck>>

\* the interval timer fires: executeLoop()
TimerFire(calm) ==
    /\ admission' = ""
    /\ MayRun(calm)
    /\ liveTimers > 0
    /\ now + OwedLoops < MaxTime
    /\ ExecuteLoopCall
    /\ logs' = <<>>
    /\ UNCHANGED <<engine, mutex, startCont, running, pc, sellQueue, pendingOrder,
                   initPc, db, orderSeq, restarts, updates, outages, keyCheck>>

\* ------------------------------------------------------------ executeLoop
\* the lock is granted to an executeLoop() call: the re-check, then the
\* iteration starts and awaits getBalance
LoopAcquire ==
    /\ admission' = ""
    /\ CanAcquire
    /\ waitq # <<>> /\ Head(waitq).kind = "loop"
    /\ waitq' = Tail(waitq)
    /\ logs' = <<>>
    /\ IF isStopping \/ status # "RUNNING"
       THEN UNCHANGED <<isScanning, mutex, running, pc>>
       ELSE /\ isScanning' = TRUE
            /\ mutex' = MutexWhileIterating
            /\ running' = running + 1
            /\ pc' = "refresh"
    /\ UNCHANGED <<status, settings, tradeLedger, activeTrades, marketData,
                   portfolio, usdtBalance, scanTimer, liveTimers, isStopping,
                   startCont, sellQueue, pendingOrder, initPc, world>>

\* getBalance settles for the iteration
RefreshReturn(balance) ==
    /\ ~MicroPending
    /\ pc = "refresh"
    /\ IF isStopping
       THEN /\ pc' = "idle" /\ isScanning' = ScanningAfterLoop /\ mutex' = "free"
            /\ running' = running - 1
       ELSE /\ pc' = "scan"
            /\ UNCHANGED <<isScanning, mutex, running>>
    /\ RefreshEffect(balance, <<>>)
    /\ UNCHANGED <<status, settings, tradeLedger, activeTrades, marketData,
                   scanTimer, liveTimers, isStopping, waitq, startCont,
                   sellQueue, pendingOrder, initPc, world>>

\* fetchTickers and the OHLCV fetches settle; unless stopping, executeStrategy
\* runs up to its first order
ScanReturn(board, dbUp) ==
    /\ StoreAnswers(dbUp)
    /\ ~MicroPending
    /\ pc = "scan"
    /\ marketData' = IF board.ok THEN ScanResult(board.tickers) ELSE marketData
    /\ LET lg == IF board.ok THEN <<>> ELSE <<Log("ERROR", "Market scan failed")>>
       IN IF isStopping
          THEN Finish(lg) /\ UNCHANGED <<activeTrades, db>>
          ELSE Continue(Strategy(Keys(activeTrades), Segment(activeTrades, db.trades, lg), marketData', dbUp),
                        db.ledger)
    /\ UNCHANGED <<settings, tradeLedger, portfolio, usdtBalance,
                   scanTimer, liveTimers, isStopping, waitq, startCont, initPc,
                   now, orderSeq, restarts, updates, keyCheck>>

\* the trade is dropped when its sell order is rejected
TradesWithoutFailedSell(trades, symbol) == MapDelete(trades, symbol)
\* activeTrades after the catch of a rejected sell: it only logs
TradesAfterFailedSell(trades, symbol) == trades

\* placeOrder settles for a sell ("throw": it rejected); the sell loop goes
\* on with the next entry
SellOrderReturn(kind, dbUp) ==
    /\ StoreAnswers(dbUp)
    /\ ~MicroPending
    /\ pc = "sell"
    /\ LET symbol == pendingOrder.symbol
           tradeData == Find(activeTrades, symbol)
           order == OrderResponse(kind, OrderId(kind), pendingOrder.amount, pendingOrder.price)
           completedTrade == SellRow(order, tradeData, symbol, pendingOrder.price, now)
           failed == Segment(TradesAfterFailedSell(activeTrades, symbol), db.trades,
                             <<Log("ERROR", "Failed to sell")>>)
           sold == Segment(MapDelete(activeTrades, symbol),
                           DeleteActiveTrade(db.trades, symbol),
                           <<Log("SUCCESS", "Sold")>>)
       IN IF kind = "throw"
          THEN /\ Continue(Strategy(sellQueue, failed, marketData, dbUp), db.ledger)
               /\ UNCHANGED <<tradeLedger, orderSeq>>
          ELSE /\ orderSeq' = orderSeq + 1
               /\ tradeLedger' = <<completedTrade>> \o tradeLedger
               /\ IF dbUp
                  THEN Continue(Strategy(sellQueue, sold, marketData, dbUp),
                                SaveLedgerItem(db.ledger, completedTrade))
                  ELSE Continue(Strategy(sellQueue, failed, marketData, dbUp), db.ledger)
    /\ UNCHANGED <<settings, marketData, portfolio, usdtBalance,
                   scanTimer, liveTimers, isStopping, waitq, startCont, initPc,
                   now, restarts, updates, keyCheck>>

\* placeOrder settles for the buy; executeStrategy returns
BuyOrderReturn(kind, dbUp) ==
    /\ StoreAnswers(dbUp)
    /\ ~MicroPending
    /\ pc = "buy"
    /\ LET candidate == [symbol |-> pendingOrder.symbol, price |-> pendingOrder.price]
           order == OrderResponse(kind, OrderId(kind), pendingOrder.amount, pendingOrder.price)
           tradeRecord == TradeRecord(order, candidate, now)
           completedTrade == BuyRow(order, tradeRecord, now)
       IN IF kind = "throw"
          THEN /\ Finish(<<Log("ERROR", "Failed to buy")>>)
               /\ UNCHANGED <<activeTrades, tradeLedger, db, orderSeq>>
          ELSE /\ orderSeq' = orderSeq + 1
               /\ activeTrades' = MapSet(activeTrades, tradeRecord)
               /\ IF dbUp
                  THEN /\ db' = [db EXCEPT
                                   !.trades = SaveActiveTrade(@, tradeRecord),
                                   !.ledger = SaveLedgerItem(@, completedTrade)]
                       /\ tradeLedger' = <<completedTrade>> \o tradeLedger
                       /\ Finish(<<Log("SUCCESS", "Bought")>>)
                  ELSE /\ Finish(<<Log("ERROR", "Failed to buy")>>)
                       /\ UNCHANGED <<tradeLedger, db>>
    /\ UNCHANGED <<settings, marketData, portfolio, usdtBalance,
                   scanTimer, liveTimers, isStopping, waitq, startCont, initPc,
                   now, restarts, updates, keyCheck>>

\* ------------------------------------------------------------ environment
\* the process dies and is started again: a new BotEngine over the same store
Restart(calm) ==
    /\ MayRun(calm)
    /\ restarts < MaxRestarts
    /\ restarts' = restarts + 1
    /\ UNCHANGED <<db, now, orderSeq, updates, outages>>
    /\ status' = "INITIALIZING"
    /\ settings' = ConstructedSettings(db)
    /\ activeTrades' = ConstructedTrades(db)
    /\ tradeLedger' = ConstructedLedger(db)
    /\ marketData' = <<>>
    /\ portfolio' = <<>>
    /\ usdtBalance' = 0
    /\ scanTimer' = 0
    /\ liveTimers' = 0
    /\ isScanning' = FALSE
    /\ isStopping' = FALSE
    /\ mutex' = "free"
    /\ waitq' = <<>>
    /\ startCont' = 0
    /\ running' = 0
    /\ pc' = "idle"
    /\ sellQueue' = <<>>
    /\ pendingOrder' = NoOrder
    /\ initPc' = "new"
    /\ keyCheck' = "unchecked"
    /\ logs' = <<>>
    /\ admission' = ""

\* ---------------------------------------------------------- specification
\* inputs of the environment -------------------------------------------------
Balance(usdt, ltc, foo) ==
    [ok |-> TRUE, USDT |-> usdt, LTC |-> ltc, FOO |-> foo]
BalanceFails == [ok |-> FALSE]
Board(tickers) == [ok |-> TRUE, tickers |-> FixedTickers \o tickers]
BoardFails == [ok |-> FALSE]

\* the interleaving specification: few data, every interleaving
ConcBalances == {Balance(Holding(100, 100), Holding(4, 4), Holding(0, 0)), BalanceFails}
ConcBoards ==
    {Board(<<Ticker("LTC/USDT", 4, 500, "buy")>>),
     Board(<<Ticker("LTC/USDT", 8, 500, "hold")>>)}
ConcKinds == {"full", "throw"}
ConcPatches == {[scanIntervalMs |-> 2000]}
ConcStores == {TRUE}
\* the store may fail (part_007 rethrows the SQLite error)
Stores == BOOLEAN

Next ==
    \/ CallInitialize(FALSE)
    \/ \E marketsOk \in BOOLEAN, isSafe \in BOOLEAN : InitGatewayReturn(marketsOk, isSafe)
    \/ InitAcquire
    \/ \E balance \in ConcBalances : InitRefreshReturn(balance)
    \/ CallStart(FALSE)
    \/ RunStart
    \/ StartContinuation
    \/ \E hard \in BOOLEAN : CallStop(FALSE, hard)
    \/ RunStop
    \/ \E newSettings \in ConcPatches : CallUpdateSettings(FALSE, newSettings)
    \/ \E dbUp \in ConcStores : RunUpdate(dbUp)
    \/ TimerFire(FALSE)
    \/ LoopAcquire
    \/ \E balance \in ConcBalances : RefreshReturn(balance)
    \/ \E board \in ConcBoards, dbUp \in ConcStores : ScanReturn(board, dbUp)
    \/ \E kind \in ConcKinds, dbUp \in ConcStores : SellOrderReturn(kind, dbUp)
    \/ \E kind \in ConcKinds, dbUp \in ConcStores : BuyOrderReturn(kind, dbUp)
Spec == Init /\ [][Next]_vars

\* the fair specification: initialize() and start() are called on a settled
\* engine, stop() at any time; every gateway call may fail; every gateway call
\* settles and the event loop runs every microtask that is due (the hand-over
\* of the lock, the rest of start())
FairBoards == ConcBoards \cup {BoardFails}
\* a microtask of the engine: a critical section whose turn has come, or the
\* part of start() after its critical section
Microtask ==
    \/ InitAcquire
    \/ RunStart
    \/ StartContinuation
    \/ RunStop
    \/ LoopAcquire
\* a gateway call settles
GatewaySettles ==
    \/ \E marketsOk \in BOOLEAN, isSafe \in BOOLEAN : InitGatewayReturn(marketsOk, isSafe)
    \/ \E balance \in ConcBalances : InitRefreshReturn(balance)
    \/ \E balance \in ConcBalances : RefreshReturn(balance)
    \/ \E board \in FairBoards, dbUp \in ConcStores : ScanReturn(board, dbUp)
    \/ \E kind \in ConcKinds, dbUp \in ConcStores : SellOrderReturn(kind, dbUp)
    \/ \E kind \in ConcKinds, dbUp \in ConcStores : BuyOrderReturn(kind, dbUp)
NextFair ==
    \/ CallInitialize(TRUE)
    \/ CallStart(TRUE)
    \/ \E hard \in BOOLEAN : CallStop(FALSE, hard)
    \/ TimerFire(FALSE)
    \/ Microtask
    \/ GatewaySettles
Fairness == WF_vars(Microtask) /\ WF_vars(GatewaySettles)
SpecFair == Init /\ [][NextFair]_vars /\ Fairness

\* the stopping specification: every interleaving of start(), stop() and the
\* iterations, with boards on which a sell is followed by a buy in the same
\* iteration unless the engine is stopping
StopBoards ==
    {Board(<<Ticker("LTC/USDT", 4, 500, "buy")>>),
     Board(<<Ticker("LTC/USDT", 8, 500, "buy")>>)}

NextStop ==
    \/ CallInitialize(FALSE)
    \/ \E marketsOk \in BOOLEAN, isSafe \in BOOLEAN : InitGatewayReturn(marketsOk, isSafe)
    \/ InitAcquire
    \/ \E balance \in ConcBalances : InitRefreshReturn(balance)
    \/ CallStart(FALSE)
    \/ RunStart
    \/ StartContinuation
    \/ \E hard \in BOOLEAN : CallStop(FALSE, hard)
    \/ RunStop
    \/ TimerFire(FALSE)
    \/ LoopAcquire
    \/ \E balance \in ConcBalances : RefreshReturn(balance)
    \/ \E board \in StopBoards, dbUp \in ConcStores : ScanReturn(board, dbUp)
    \/ \E kind \in ConcKinds, dbUp \in ConcStores : SellOrderReturn(kind, dbUp)
    \/ \E kind \in ConcKinds, dbUp \in ConcStores : BuyOrderReturn(kind, dbUp)
SpecStop == Init /\ [][NextStop]_vars

\* the strategy specification: the callers wait until the engine has settled
\* (no command while the lock is held or wanted), richer data, and restarts
Balances ==
    {Balance(Holding(100, 100), Holding(10, 10), Holding(10, 10)),
     Balance(Holding(20, 20), Holding(10, 10), Holding(0, 0))}
Boards ==
    {Board(<<Ticker("LTC/USDT", 4, 500, "buy"), Ticker("FOO/USDT", 4, 300, "buy")>>),
     Board(<<Ticker("LTC/USDT", 8, 500, "hold"), Ticker("FOO/USDT", 4, 300, "hold")>>),
     Board(<<Ticker("LTC/USDT", 2, 500, "buy")>>)}
Kinds == {"full", "average", "throw"}
Patches ==
    {[maxOpenTrades |-> 1],
     [tradeAmountUSDT |-> 8],
     [useTrailingStop |-> TRUE, trailingStopOffsetPercentage |-> 25],
     [useTrailingStop |-> TRUE, trailingStopOffsetPercentage |-> 80]}

NextStrategy ==
    \/ CallInitialize(TRUE)
    \/ \E marketsOk \in BOOLEAN, isSafe \in BOOLEAN : InitGatewayReturn(marketsOk, isSafe)
    \/ InitAcquire
    \/ \E balance \in Balances : InitRefreshReturn(balance)
    \/ CallStart(TRUE)
    \/ RunStart
    \/ StartContinuation
    \/ \E newSettings \in Patches : CallUpdateSettings(TRUE, newSettings)
    \/ \E dbUp \in Stores : RunUpdate(dbUp)
    \/ TimerFire(TRUE)
    \/ LoopAcquire
    \/ \E balance \in Balances : RefreshReturn(balance)
    \/ \E board \in Boards, dbUp \in Stores : ScanReturn(board, dbUp)
    \/ \E kind \in Kinds, dbUp \in Stores : SellOrderReturn(kind, dbUp)
    \/ \E kind \in Kinds, dbUp \in Stores : BuyOrderReturn(kind, dbUp)
    \/ Restart(TRUE)
SpecStrategy == Init /\ [][NextStrategy]_vars

\* the ledger specification: the callers wait as above, few data, restarts,
\* every failure of the gateway and of the store, and an exchange whose order
\* ids may repeat and whose fills may differ from the order in price and amount
LedgerKinds == {"full", "repeat", "slip", "throw"}
LedgerBoards ==
    ConcBoards \cup
    {Board(<<Ticker("LTC/USDT", 8, 500, "throw"), Ticker("FOO/USDT", 4, 300, "hold")>>),
     BoardFails}
\* the payload of a 'settings' message goes to updateSettings() as it came
LedgerPatches == ConcPatches \cup {[scanIntervalMs |-> 500, smaShortPeriod |-> 30]}

NextLedger ==
    \/ CallInitialize(TRUE)
    \/ \E marketsOk \in BOOLEAN, isSafe \in BOOLEAN : InitGatewayReturn(marketsOk, isSafe)
    \/ InitAcquire
    \/ \E balance \in ConcBalances : InitRefreshReturn(balance)
    \/ CallStart(TRUE)
    \/ RunStart
    \/ StartContinuation
    \/ \E newSettings \in LedgerPatches : CallUpdateSettings(TRUE, newSettings)
    \/ \E dbUp \in Stores : RunUpdate(dbUp)
    \/ TimerFire(TRUE)
    \/ LoopAcquire
    \/ \E balance \in ConcBalances : RefreshReturn(balance)
    \/ \E board \in LedgerBoards, dbUp \in Stores : ScanReturn(board, dbUp)
    \/ \E kind \in LedgerKinds, dbUp \in Stores : SellOrderReturn(kind, dbUp)
    \/ \E kind \in LedgerKinds, dbUp \in Stores : BuyOrderReturn(kind, dbUp)
    \/ Restart(TRUE)
SpecLedger == Init /\ [][NextLedger]_vars

\* the exchange specification: the callers wait as above, no restart and no
\* settings change; getBalance and fetchTickers always answer; the balance may
\* report that the whole USDT balance was spent, and the ticker board may list
\* more than TOP_CANDIDATES pairs with a higher quoteVolume than the pair the
\* engine holds, or price that pair above maxCoinPrice
ExchangeBalances ==
    {Balance(Holding(100, 100), Holding(4, 4), Holding(0, 0)),
     Balance(Holding(0, 0), Holding(14, 14), Holding(0, 0))}
AltTickers == [i \in AltNumbers |-> Ticker(AltPair(i), 2, 600 + i, "hold")]
ExchangeBoards ==
    {Board(<<Ticker("LTC/USDT", 4, 500, "buy")>>),
     Board(<<Ticker("LTC/USDT", 9, 500, "hold")>>),
     Board(AltTickers \o <<Ticker("LTC/USDT", 8, 500, "hold")>>)}

NextExchange ==
    \/ CallInitialize(TRUE)
    \/ \E marketsOk \in BOOLEAN, isSafe \in BOOLEAN : InitGatewayReturn(marketsOk, isSafe)
    \/ InitAcquire
    \/ \E balance \in ExchangeBalances : InitRefreshReturn(balance)
    \/ CallStart(TRUE)
    \/ RunStart
    \/ StartContinuation
    \/ TimerFire(TRUE)
    \/ LoopAcquire
    \/ \E balance \in ExchangeBalances : RefreshReturn(balance)
    \/ \E board \in ExchangeBoards, dbUp \in ConcStores : ScanReturn(board, dbUp)
    \/ \E kind \in ConcKinds, dbUp \in ConcStores : SellOrderReturn(kind, dbUp)
    \/ \E kind \in ConcKinds, dbUp \in ConcStores : BuyOrderReturn(kind, dbUp)
SpecExchange == Init /\ [][NextExchange]_vars

\* ------------------------------------------------------------------ claims
LoopsWaiting == Len(SelectSeq(waitq, LAMBDA r : r.kind = "loop"))
HasLog(lg, type) == \E i \in 1..Len(lg) : lg[i].type = type
HasMessage(lg, message) == \E i \in 1..Len(lg) : lg[i].message = message
\* the symbols of the trades that are active before the step
ActiveBefore == {activeTrades[i].symbol : i \in 1..Len(activeTrades)}
\* the last balance report has no positive free amount of the base asset
ReportedZero(symbol) ==
    \A i \in 1..Len(portfolio) : portfolio[i].symbol = symbol => portfolio[i].amount <= 0
\* an iteration that ran executeStrategy ends in this step
IterationEnds == pc \in {"scan", "sell", "buy"} /\ pc' = "idle"
\* the SELL rows the step adds to the ledger for a symbol
NewSellRows(symbol) ==
    {i \in 1..(Len(tradeLedger') - Len(tradeLedger)) :
        tradeLedger'[i].type = "SELL" /\ tradeLedger'[i].pair = symbol}

\* C1: at any instant at most one iteration of executeLoop is between its
\* admission (isScanning set under the lock) and its finally block.
C1_OneIterationAtATime == running <= 1
\* an iteration is under way while a later executeLoop() call waits for the lock
C1_Witness == running = 1 /\ pc = "scan" /\ LoopsWaiting >= 1

\* C2: once validateApiKeyPermissions has answered false and the status is
\* ERROR, the critical section of a later start() leaves the status ERROR,
\* logs an error and creates no timer.
C2_UnsafeKeyRefusesStart ==
    [][(keyCheck = "unsafe" /\ status = "ERROR" /\ startCont' = startCont + 1)
         => (status' = "ERROR" /\ HasLog(logs', "ERROR") /\ liveTimers' = liveTimers)]_vars

\* C3 as stated: in every reachable state activeTrades has at most
\* settings.maxOpenTrades entries.
C3_AtMostMaxOpenTrades == Len(activeTrades) <= settings.maxOpenTrades
\* C3 amended: a step of a running engine adds an entry to activeTrades only
\* when there are fewer than settings.maxOpenTrades entries, so that a buy
\* never takes the size above the maxOpenTrades in force.
C3_BuysRespectMaxOpenTrades ==
    [][(restarts' = restarts /\ Len(activeTrades') > Len(activeTrades))
         => (Len(activeTrades) < settings.maxOpenTrades
             /\ Len(activeTrades') <= settings'.maxOpenTrades)]_vars
\* a buy has just filled the last free slot
C3_Witness ==
    /\ HasMessage(logs, "Bought")
    /\ Len(activeTrades) = settings.maxOpenTrades

\* C4: for every active trade, the stop price the sell decision computes is
\* never below purchasePrice * (1 - stopLossPercent / 100).
C4_StopNeverBelowInitialStop ==
    \A i \in 1..Len(activeTrades) :
        EffectiveStopLossPrice100(activeTrades[i], settings)
            >= InitialStopLossPrice100(activeTrades[i], settings)

\* C5: no order, buy or sell, is placed whose amount times the price of the
\* decision is below MIN_TRADE_VALUE_USDT.
C5_NoOrderBelowMinimum ==
    pendingOrder.side # "none"
        => pendingOrder.amount * pendingOrder.price >= MIN_TRADE_VALUE_USDT

\* C6: a sell order decided at a price that is at once >= the target price
\* and <= the effective stop carries the reason Take Profit.
C6_TakeProfitFirst ==
    pendingOrder.side = "sell" =>
        LET tradeData == Find(activeTrades, pendingOrder.symbol)
        IN (/\ pendingOrder.price * 100 >= TargetPrice100(tradeData, settings)
            /\ pendingOrder.price * 100 <= EffectiveStopLossPrice100(tradeData, settings))
           => pendingOrder.reason = "Take Profit"
\* a sell is under way whose price is above the target and below the stop
C6_Witness ==
    /\ pendingOrder.side = "sell"
    /\ pendingOrder.reason = "Take Profit"
    /\ pendingOrder.price * 100
         <= EffectiveStopLossPrice100(Find(activeTrades, pendingOrder.symbol), settings)

C8_NoBuyWithoutAdmission ==
    pc = "buy" => (/\ Len(activeTrades) < settings.maxOpenTrades
                   /\ usdtBalance >= settings.tradeAmountUSDT)
\* the buy half has just refused a coin that passes every filter
C8_Witness ==
    /\ admission = "refused"
    /\ PotentialBuys(marketData, activeTrades, settings) # <<>>
    /\ pendingOrder = NoOrder

\* C9 as stated: highestPriceSinceBuy of an active trade is >= its
\* purchasePrice and no step, a construction included, lowers it.
SameTrade(t, u) == t.symbol = u.symbol /\ t.timestamp = u.timestamp
C9_HighestNeverDecreases ==
    [][\A i \in 1..Len(activeTrades') :
         /\ activeTrades'[i].highestPriceSinceBuy >= activeTrades'[i].purchasePrice
         /\ \A j \in 1..Len(activeTrades) :
              SameTrade(activeTrades[j], activeTrades'[i])
                 => activeTrades'[i].highestPriceSinceBuy
                       >= activeTrades[j].highestPriceSinceBuy]_vars
\* C9 amended: highestPriceSinceBuy of an active trade is >= its purchasePrice
\* in every state, and no step of a running engine lowers it.
C9_HighestNeverDecreasesWhileRunning ==
    [][\A i \in 1..Len(activeTrades') :
         /\ activeTrades'[i].highestPriceSinceBuy >= activeTrades'[i].purchasePrice
         /\ restarts' = restarts =>
              \A j \in 1..Len(activeTrades) :
                 SameTrade(activeTrades[j], activeTrades'[i])
                    => activeTrades'[i].highestPriceSinceBuy
                          >= activeTrades[j].highestPriceSinceBuy]_vars
\* a trade whose highest price has been raised above its purchase price
C9_Witness ==
    \E i \in 1..Len(activeTrades) :
        activeTrades[i].highestPriceSinceBuy > activeTrades[i].purchasePrice

\* C10: every SELL row of the ledger has numbers for cost, amount and profit
\* with profitAmount = cost - purchasePriceForSell * amount and
\* profitPercent = profitAmount / (purchasePriceForSell * amount) * 100.
C10_SellRowsConsistent ==
    \A i \in 1..Len(tradeLedger) :
        tradeLedger[i].type = "SELL" =>
            LET row == tradeLedger[i]
                basis == JsMul(row.purchasePriceForSell, row.amount)
            IN /\ IsNum(row.cost) /\ IsNum(row.amount) /\ IsNum(row.profitAmount)
               /\ row.profitAmount = row.cost - basis
               /\ FracEq(row.profitPercent, JsPercent(row.profitAmount, basis))

\* C11: a step never removes or changes a row of the trade_ledger table or,
\* while the engine lives, of the ledger in memory: every old row is still
\* there, the rows of memory keep their order behind the new ones, and a new
\* row's timestamp is not below that of any row recorded before.
C11_LedgerAppendOnly ==
    [][/\ \A i \in 1..Len(db.ledger) :
            \E j \in 1..Len(db'.ledger) : db'.ledger[j] = db.ledger[i]
       /\ restarts' = restarts =>
            LET added == Len(tradeLedger') - Len(tradeLedger)
            IN /\ added >= 0
               /\ \A i \in 1..Len(tradeLedger) : tradeLedger'[i + added] = tradeLedger[i]
               /\ \A i \in 1..added : \A j \in 1..Len(tradeLedger) :
                     tradeLedger'[i].timestamp >= tradeLedger[j].timestamp]_vars


\* C12: no coin of marketData is one of the pairs BTC/USDT, ETH/USDT and
\* BNB/USDT, and no buy order is under way for one of them.
C12_NoExcludedPair ==
    /\ \A i \in 1..Len(marketData) :
          marketData[i].symbol \notin {"BTC/USDT", "ETH/USDT", "BNB/USDT"}
    /\ pendingOrder.side = "buy"
          => pendingOrder.symbol \notin {"BTC/USDT", "ETH/USDT", "BNB/USDT"}
\* a scan whose tickers held BTC/USDT with a buy signal has filled marketData
\* and the buy half found no coin to buy
C12_Witness ==
    /\ marketData # <<>>
    /\ admission = "none"
    /\ \E i \in 1..Len(FixedTickers) :
          FixedTickers[i].symbol = "BTC/USDT" /\ FixedTickers[i].ind = "buy"


\* C13: a sell is ordered for the whole free amount of the trade; and when the
\* order of a Take Profit sell fills (and the store takes every write of the
\* step) the step adds exactly one row to the ledger, a SELL row of the pair
\* with positive profitAmount and profitPercent, and the trade is no longer
\* active.
C13_TakeProfitSellRecorded ==
    [][/\ pendingOrder'.side = "sell"
            => pendingOrder'.amount = Find(portfolio', pendingOrder'.symbol).amount
       /\ (/\ pc = "sell" /\ pendingOrder.reason = "Take Profit"
           /\ orderSeq' = orderSeq + 1 /\ outages' = outages)
            => /\ Len(tradeLedger') = Len(tradeLedger) + 1
               /\ tradeLedger'[1].type = "SELL"
               /\ tradeLedger'[1].pair = pendingOrder.symbol
               /\ IsNum(tradeLedger'[1].profitAmount)
               /\ tradeLedger'[1].profitAmount > 0
               /\ IsNum(tradeLedger'[1].profitPercent[1])
               /\ tradeLedger'[1].profitPercent[1] > 0
               /\ ~Has(activeTrades', pendingOrder.symbol)]_vars


\* the stop of the specification for a trade (after the bookkeeping of the
\* highest price): the larger of the initial stop and, once armed, the
\* trailing stop; times 100
StopOfSpec100(tradeData, s) ==
    IF TrailingArmed(tradeData, s)
       /\ TrailingStopPrice100(tradeData, s) > InitialStopLossPrice100(tradeData, s)
    THEN TrailingStopPrice100(tradeData, s)
    ELSE InitialStopLossPrice100(tradeData, s)
\* the trade as the sell decision of this step sees it
TradeAtDecision(symbol) ==
    LET tradeData == Find(activeTrades, symbol)
    IN [tradeData EXCEPT !.highestPriceSinceBuy =
            HighestAfter(tradeData, PriceOf(marketData', symbol), settings)]
\* the trade has a price below its target and at or below its stop, and a free
\* amount that is worth selling
DueStopLoss(symbol) ==
    LET price == PriceOf(marketData', symbol)
    IN /\ Truthy(price)
       /\ ~NoBalance(portfolio, symbol)
       /\ ~SellIsDust(Find(portfolio, symbol).amount, price)
       /\ price * 100 < TargetPrice100(Find(activeTrades, symbol), settings)
       /\ price * 100 <= StopOfSpec100(TradeAtDecision(symbol), settings)
\* C14: when the strategy runs (the engine is not stopping and the store takes
\* every write), a trade whose price is below the target and at or below the
\* effective stop makes the iteration order a sell, with the reason Stop Loss
\* when the order is for that trade; and the sell the iteration orders is for a
\* trade whose price is at or above the target or at or below the effective stop.
C14_StopLossSells ==
    [][(pc = "scan" /\ pc' # "scan" /\ ~isStopping /\ outages' = outages)
         => /\ \A symbol \in ActiveBefore :
                 DueStopLoss(symbol)
                    => /\ pc' = "sell"
                       /\ pendingOrder'.symbol = symbol
                             => pendingOrder'.reason = "Stop Loss"
            /\ pc' = "sell"
                 => LET symbol == pendingOrder'.symbol
                        price == pendingOrder'.price
                    IN \/ price * 100 >= TargetPrice100(Find(activeTrades, symbol), settings)
                       \/ price * 100 <= StopOfSpec100(TradeAtDecision(symbol), settings)]_vars


\* the engine's own sell condition holds for the trade in this step: a price, a
\* free amount worth selling, and the price at or above the target or at or
\* below the stop the engine computes
SellDue(symbol) ==
    LET price == PriceOf(marketData', symbol)
    IN /\ Truthy(price)
       /\ ~NoBalance(portfolio, symbol)
       /\ ~SellIsDust(Find(portfolio, symbol).amount, price)
       /\ \/ price * 100 >= TargetPrice100(Find(activeTrades, symbol), settings)
          \/ price * 100 <= EffectiveStopLossPrice100(TradeAtDecision(symbol), settings)
\* C15: the step in which placeOrder rejects a sell logs an ERROR, keeps the
\* trade with its purchasePrice and amount and adds no row to the ledger (memory
\* and table); the step in which it rejects a buy logs an ERROR and changes
\* neither activeTrades nor the ledger nor the store; and nothing of a failure
\* is remembered: every iteration whose strategy runs (not stopping, the store
\* taking every write) orders a sell when a trade's sell condition holds.
C15_FailedOrderLeavesPosition ==
    [][/\ (pc = "sell" /\ pendingOrder' # pendingOrder /\ orderSeq' = orderSeq)
            => /\ HasLog(logs', "ERROR")
               /\ Has(activeTrades', pendingOrder.symbol)
               /\ Find(activeTrades', pendingOrder.symbol).purchasePrice
                     = Find(activeTrades, pendingOrder.symbol).purchasePrice
               /\ Find(activeTrades', pendingOrder.symbol).amount
                     = Find(activeTrades, pendingOrder.symbol).amount
               /\ tradeLedger' = tradeLedger
               /\ db'.ledger = db.ledger
       /\ (pc = "buy" /\ pc' = "idle" /\ orderSeq' = orderSeq)
            => /\ HasLog(logs', "ERROR")
               /\ activeTrades' = activeTrades
               /\ tradeLedger' = tradeLedger
               /\ db' = db
       /\ (pc = "scan" /\ pc' # "scan" /\ ~isStopping /\ outages' = outages)
            => \A symbol \in ActiveBefore : SellDue(symbol) => pc' = "sell"]_vars
\* a sell has just been rejected: the trade is still active and no SELL row
\* was ever recorded
C15_Witness ==
    /\ HasMessage(logs, "Failed to sell")
    /\ restarts = 0
    /\ activeTrades # <<>>
    /\ \A i \in 1..Len(tradeLedger) : tradeLedger[i].type = "BUY"


\* C16: the step that completes initialize() leaves the status STOPPED when
\* nothing failed and ERROR when the gateway initialization, the permission
\* check or the first refreshAccount failed (each failure logs an ERROR).
C16_InitializeOutcome ==
    [][(initPc # "done" /\ initPc' = "done")
         => IF HasLog(logs', "ERROR") THEN status' = "ERROR" ELSE status' = "STOPPED"]_vars


\* C17: the status becomes ERROR only in the step in which initialize() fails;
\* a step of an iteration, whatever fails in it (getBalance, fetchTickers, a
\* rejected order, a throwing store), leaves the status RUNNING.
C17_OnlyInitializeSetsError ==
    [][/\ (status' = "ERROR" /\ status # "ERROR")
            => (initPc = "gateway" /\ initPc' = "done")
       /\ (pc # "idle" /\ (pc' # pc \/ pendingOrder' # pendingOrder))
            => (status = "RUNNING" /\ status' = "RUNNING")]_vars
\* an iteration has just ended in the catch of executeLoop and the engine is
\* still RUNNING
C17_Witness ==
    /\ HasMessage(logs, "Error in bot loop")
    /\ status = "RUNNING"
    /\ pc = "idle"


\* stop(true) is called in this step
HardStopCalled ==
    /\ Len(waitq') = Len(waitq) + 1
    /\ waitq'[Len(waitq')] = Request("stop", TRUE, <<>>)
\* a stop(true) call waits for the lock
HardStopWaiting == \E i \in 1..Len(waitq) : waitq[i] = Request("stop", TRUE, <<>>)
\* the order the iteration awaits fills in this step
OrderFills == pc \in {"sell", "buy"} /\ orderSeq' = orderSeq + 1
\* the fill is recorded: a new first row of the ledger for the pair, and the
\* trade added (buy) or removed (sell)
FillRecorded ==
    /\ Len(tradeLedger') = Len(tradeLedger) + 1
    /\ tradeLedger'[1].pair = pendingOrder.symbol
    /\ IF pc = "buy"
       THEN tradeLedger'[1].type = "BUY" /\ Has(activeTrades', pendingOrder.symbol)
       ELSE tradeLedger'[1].type = "SELL" /\ ~Has(activeTrades', pendingOrder.symbol)
\* what C18 says of the order and of the status: the call of stop(true) leaves
\* the awaited order, the iteration and the status as they are; a fill that
\* arrives while the engine is stopping is recorded; and stop() makes the status
\* STOPPED only when no iteration is under way
StopSparesOrder ==
    /\ (HardStopCalled /\ pc \in {"sell", "buy"})
          => (pendingOrder' = pendingOrder /\ pc' = pc /\ status' = status /\ isStopping')
    /\ (OrderFills /\ isStopping) => FillRecorded
    /\ (status' = "STOPPED" /\ status # "STOPPED" /\ initPc' = initPc) => running = 0
StartRuns == waitq # <<>> /\ Head(waitq).kind = "start" /\ waitq' = Tail(waitq)
StopRuns == waitq # <<>> /\ Head(waitq).kind = "stop" /\ waitq' = Tail(waitq)
\* C19: every start() leaves the status RUNNING with exactly one interval
\* timer, the second of two as well as the first; every stop() leaves the status
\* STOPPED with no interval timer; and no step leaves more than one timer or a
\* timer the scanTimer field does not hold.
C19_StartStopIdempotent ==
    [][/\ StartRuns => (status' = "RUNNING" /\ liveTimers' = 1 /\ scanTimer' # 0)
       /\ StopRuns => (status' = "STOPPED" /\ liveTimers' = 0 /\ scanTimer' = 0)
       /\ liveTimers' = (IF scanTimer' # 0 THEN 1 ELSE 0)]_vars
\* a start() has just found the engine RUNNING, after an executeLoop() call:
\* there is one timer
C19_Witness ==
    /\ HasMessage(logs, "Bot is already running.")
    /\ status = "RUNNING" /\ liveTimers = 1
    /\ now >= 1


\* C20: the critical section of a start() that finds the status RUNNING logs a
\* WARNING and changes nothing else: the timer, isStopping and the status stay
\* and no executeLoop() call is owed by the start().
C20_DoubleStartHasNoEffect ==
    [][(StartRuns /\ status = "RUNNING")
         => /\ HasLog(logs', "WARNING")
            /\ liveTimers' = liveTimers /\ scanTimer' = scanTimer
            /\ isStopping' = isStopping /\ status' = status
            /\ startCont' = startCont]_vars


\* an updateSettings() critical section runs in this step
UpdateRuns == waitq # <<>> /\ Head(waitq).kind = "update" /\ waitq' = Tail(waitq)
\* the settings the running updateSettings() merges
MergedSettings == Merge(settings, Head(waitq).patch)
\* one timer when RUNNING, none when STOPPED
TimerMatchesStatus ==
    /\ status = "RUNNING" => (liveTimers = 1 /\ scanTimer # 0)
    /\ status = "STOPPED" => (liveTimers = 0 /\ scanTimer = 0)
\* C21: every updateSettings() persists the merged settings and, when and only
\* when the status is RUNNING, leaves exactly one timer, which uses the new
\* scanIntervalMs; a STOPPED engine has no timer and a RUNNING one has one.
C21_UpdatePersistsAndRetimes ==
    [][/\ UpdateRuns
          => /\ settings' = MergedSettings
             /\ db'.settings = MergedSettings
             /\ status' = status
             /\ IF status = "RUNNING"
                THEN liveTimers' = 1 /\ scanTimer' = MergedSettings.scanIntervalMs
                ELSE liveTimers' = liveTimers /\ scanTimer' = scanTimer
       /\ TimerMatchesStatus']_vars

\* the invariants of the settings
SettingsValid(s) ==
    /\ s.smaShortPeriod < s.smaLongPeriod
    /\ s.smaShortPeriod >= 2 /\ s.smaLongPeriod >= 2 /\ s.rsiPeriod >= 2
    /\ s.targetProfitPercent > 0 /\ s.stopLossPercent > 0
    /\ s.trailingStopArmPercentage > 0 /\ s.trailingStopOffsetPercentage > 0
    /\ s.scanIntervalMs >= 2000
\* C22: in every state, so after every updateSettings() and every
\* construction, the settings have smaShortPeriod < smaLongPeriod, every period
\* >= 2, every percentage > 0 and scanIntervalMs >= 2000.
C22_SettingsStayValid == SettingsValid(settings)

\* the settings and trades the round trips are tried with
StoreSettings == {Merge(DefaultSettings, p) : p \in Patches \cup LedgerPatches} \cup {DefaultSettings}
StoreTrades ==
    {[symbol |-> sym, purchasePrice |-> p, amount |-> 10, timestamp |-> 1,
      highestPriceSinceBuy |-> p] : sym \in {"LTC/USDT", "FOO/USDT"}, p \in {2, 4}}
\* the row of a symbol in the table, <<>> when there is none
RowOf(rows, symbol) == SelectSeq(rows, LAMBDA r : r.symbol = symbol)
C24_LedgerCapped == Len(tradeLedger) <= LEDGER_CAP

\* the coin passes every buy filter
PassesBuyFilter(c, trades, s) ==
    /\ \A i \in 1..Len(trades) : trades[i].symbol # c.symbol
    /\ c.price <= s.maxCoinPrice
    /\ StripSlash(c.symbol) \notin EXCLUDED_SYMBOLS_BY_DEFAULT
    /\ c.rsi # Undefined /\ c.smaShort # Undefined /\ c.smaLong # Undefined
    /\ c.rsi < s.rsiBuyThreshold
    /\ c.smaShort > c.smaLong
\* admission control
AdmissionPasses(trades, balance, s) ==
    Len(trades) < s.maxOpenTrades /\ balance >= s.tradeAmountUSDT
\* the buy half of executeStrategy runs in this step: the strategy ran to its
\* end with the engine not stopping
BuyHalfRuns ==
    /\ pc \in {"scan", "sell"} /\ pc' \in {"idle", "buy"}
    /\ ~isStopping
    /\ ~HasMessage(logs', "Error in bot loop")
\* the order placed is a buy of the passing coin with the highest quoteVolume,
\* for tradeAmountUSDT / price
BuyOrderChosen ==
    \E i \in 1..Len(marketData') :
        LET c == marketData'[i]
        IN /\ PassesBuyFilter(c, activeTrades', settings)
           /\ \A j \in 1..Len(marketData') :
                PassesBuyFilter(marketData'[j], activeTrades', settings)
                    => marketData'[j].quoteVolume <= c.quoteVolume
           /\ pendingOrder'.side = "buy" /\ pendingOrder'.symbol = c.symbol
           /\ pendingOrder'.amount * c.price = settings.tradeAmountUSDT
\* the awaited buy order fills in this step
BuyFills == pc = "buy" /\ orderSeq' = orderSeq + 1
\* the fill is stored: the trade at the execution price and the filled amount,
\* and one new BUY row
BuyFillStored ==
    \E kind \in LedgerKinds \ {"throw"} :
        LET order == OrderResponse(kind, OrderId(kind), pendingOrder.amount,
                                   pendingOrder.price)
        IN /\ Has(activeTrades', pendingOrder.symbol)
           /\ Find(activeTrades', pendingOrder.symbol)
                = [symbol |-> pendingOrder.symbol, purchasePrice |-> order.average,
                   amount |-> order.filled, timestamp |-> now,
                   highestPriceSinceBuy |-> order.average]
           /\ Len(tradeLedger') = Len(tradeLedger) + 1
           /\ tradeLedger' = <<tradeLedger'[1]>> \o tradeLedger
           /\ tradeLedger'[1].type = "BUY"
           /\ tradeLedger'[1].pair = pendingOrder.symbol
           /\ tradeLedger'[1].price = order.average
           /\ tradeLedger'[1].amount = order.filled
           /\ tradeLedger'[1].cost = order.cost
\* C25: when the buy half runs with a passing coin and admission passes, one
\* buy is placed, for the passing coin of highest quoteVolume and for
\* tradeAmountUSDT / price; and when the order fills, the trade is stored with
\* the execution price and the filled amount and one BUY row is added.
C25_BuyPlacedAndRecorded ==
    [][/\ (BuyHalfRuns
            /\ AdmissionPasses(activeTrades', usdtBalance, settings)
            /\ \E i \in 1..Len(marketData') :
                 PassesBuyFilter(marketData'[i], activeTrades', settings))
          => (pc' = "buy" /\ BuyOrderChosen)
       /\ (pc # "buy" /\ pc' = "buy") => BuyOrderChosen
       /\ BuyFills => BuyFillStored]_vars

\* a scan whose ticker fetch succeeded ends in this step
ScanSucceeds ==
    pc = "scan" /\ pc' # "scan" /\ ~HasMessage(logs', "Market scan failed")
\* the ticker is a USDT pair with positive volume and price, not excluded
PassesScanFilter(t) ==
    /\ EndsWithUSDT(t.symbol)
    /\ t.baseVolume > 0 /\ t.last > 0
    /\ StripSlash(t.symbol) \notin EXCLUDED_SYMBOLS_BY_DEFAULT
\* the symbols of the passing tickers that fewer than TOP_CANDIDATES passing
\* tickers beat in quoteVolume
PoolSymbols(tickers) ==
    LET passing == {i \in 1..Len(tickers) : PassesScanFilter(tickers[i])}
    IN {tickers[i].symbol : i \in
          {i \in passing :
             Cardinality({j \in passing :
                 tickers[j].quoteVolume > tickers[i].quoteVolume}) < TOP_CANDIDATES}}
\* coins holds the pool of the tickers, each with its price and with the
\* indicators of its OHLCV data, or none when the OHLCV fetch failed
HoldsPool(tickers, coins) ==
    /\ {coins[i].symbol : i \in 1..Len(coins)} = PoolSymbols(tickers)
    /\ \A i \in 1..Len(coins) : \E j \in 1..Len(tickers) :
         LET ind == Indicators(tickers[j].ind)
         IN /\ tickers[j].symbol = coins[i].symbol
            /\ coins[i].price = tickers[j].last
            /\ coins[i].rsi = ind.rsi
            /\ coins[i].smaShort = ind.smaShort
            /\ coins[i].smaLong = ind.smaLong
\* C26: after a successful ticker fetch marketData holds exactly the passing
\* tickers of highest quoteVolume (at most TOP_CANDIDATES), the candidates
\* whose OHLCV fetch failed among them, without indicators.
C26_MarketDataIsPool ==
    [][ScanSucceeds
         => \E board \in LedgerBoards :
               board.ok /\ HoldsPool(board.tickers, marketData')]_vars

\* an iteration is past its refreshAccount()
AfterRefresh == pc \in {"scan", "sell", "buy"}
\* C27: in an iteration a sell order is placed only before the buy decision
\* (after a buy order the iteration ends), so at most one buy order is placed;
\* usdtBalance and portfolio stay as refreshAccount() left them until the
\* iteration ends; a buy is placed only when that usdtBalance covers
\* tradeAmountUSDT, and is not placed when it does not, whatever was sold
\* earlier in the iteration.
C27_SellsThenOneBuyOnFetchedBalance ==
    [][/\ (pc # "sell" /\ pc' = "sell") => pc = "scan"
       /\ (pc # "buy" /\ pc' = "buy") => pc \in {"scan", "sell"}
       /\ (pc = "buy" /\ pc' # "buy") => pc' = "idle"
       /\ (AfterRefresh /\ restarts' = restarts)
            => (usdtBalance' = usdtBalance /\ portfolio' = portfolio)
       /\ (pc # "buy" /\ pc' = "buy") => usdtBalance >= settings.tradeAmountUSDT
       /\ (BuyHalfRuns /\ usdtBalance < settings.tradeAmountUSDT) => pc' = "idle"]_vars
\* a sell has just filled and the buy decision that followed it in the same
\* step refused a passing coin with a free slot, for the balance fetched before
\* the sell
C27_Witness ==
    /\ HasMessage(logs, "Sold")
    /\ admission = "refused"
    /\ Len(activeTrades) < settings.maxOpenTrades
    /\ usdtBalance < settings.tradeAmountUSDT
    /\ pc = "idle"

\* a stop() call waits for the lock
StopWaiting == \E i \in 1..Len(waitq) : waitq[i].kind = "stop"
\* C28: while isStopping is set, the gateway call an iteration awaits is its
\* last: when getBalance returns no scan starts, when the scan returns
\* executeStrategy does not run (no trade changes, no order), and when an order
\* returns no other order is placed; the iteration ends in that step.
C28_StoppingIterationGoesNoFurther ==
    [][(isStopping /\ pc # "idle" /\ pc' # pc)
         => /\ pc' = "idle" /\ pendingOrder' = NoOrder
            /\ pc \in {"refresh", "scan"}
                 => (activeTrades' = activeTrades /\ tradeLedger' = tradeLedger)
            /\ pc = "refresh" => marketData' = marketData]_vars
\* a sell has just filled while a stop() waits for the lock, and the iteration
\* ended there: a coin passes the buy filter and admission passes, and no buy
\* order was placed
C28_Witness ==
    /\ isStopping /\ StopWaiting
    /\ pc = "idle" /\ mutex = "free" /\ HasMessage(logs, "Sold")
    /\ pendingOrder = NoOrder
    /\ AdmissionPasses(activeTrades, usdtBalance, settings)
    /\ \E i \in 1..Len(marketData) :
         PassesBuyFilter(marketData[i], activeTrades, settings)

\* an updateSettings() call waits for the lock
UpdateWaiting == \E i \in 1..Len(waitq) : waitq[i].kind = "update"
\* C29: no step taken while an iteration runs (from its refreshAccount() until
\* it releases the lock) changes the settings or the timer, and an
\* updateSettings() runs only when no iteration holds the lock.
C29_SettingsFixedDuringIteration ==
    [][/\ pc # "idle" => (settings' = settings /\ scanTimer' = scanTimer)
       /\ UpdateRuns => (pc = "idle" /\ mutex = "free")]_vars
\* an updateSettings() call was made while the iteration awaits an order, and
\* waits: the iteration still has the settings it started with
C29_Witness ==
    /\ pc \in {"sell", "buy"}
    /\ UpdateWaiting
    /\ Head(waitq).kind = "update"
    /\ mutex = "loop"
    /\ Merge(settings, Head(waitq).patch) # settings

\* C30: the step that ends an iteration, whatever its gateway calls answered,
\* clears isScanning and frees the lock, and leaves the status and the timer
\* as they are; an executeLoop() call made while no iteration runs is queued;
\* every iteration under way ends; and an executeLoop() call that waits while
\* the engine is RUNNING and not stopping leads to a new iteration (or to the
\* engine stopping or leaving RUNNING first).
C30_IterationsEndAndRestart ==
    /\ [][/\ (pc # "idle" /\ pc' = "idle")
               => (/\ ~isScanning' /\ mutex' = "free"
                   /\ status' = status /\ liveTimers' = liveTimers)
          /\ (pc = "idle") => ~isScanning
          /\ (now' = now + 1 /\ pc = "idle") => LoopsWaiting' = LoopsWaiting + 1]_vars
    /\ (pc # "idle") ~> (pc = "idle")
    /\ (pc = "idle" /\ LoopsWaiting > 0 /\ status = "RUNNING" /\ ~isStopping)
          ~> (pc = "refresh" \/ status # "RUNNING" \/ isStopping)
\* a new iteration has started on a RUNNING engine after one that scanned the
\* market and whose buy, which was due, left no trade
C30_Witness ==
    /\ pc = "refresh" /\ status = "RUNNING" /\ ~isStopping
    /\ marketData # <<>> /\ tradeLedger = <<>> /\ activeTrades = <<>>
    /\ AdmissionPasses(activeTrades, usdtBalance, settings)
    /\ \E i \in 1..Len(marketData) :
         PassesBuyFilter(marketData[i], activeTrades, settings)

\* C31: when the store throws in the step in which an awaited order fills, the
\* memory is updated as for a successful write: a filled sell removes the trade
\* from activeTrades and adds its SELL row to the ledger in memory, a filled
\* buy adds the trade and its BUY row.
C31_MemoryUpdatedDespiteStoreFailure ==
    [][(OrderFills /\ outages' = outages + 1) => FillRecorded]_vars

\* an order is handed to placeOrder in this step
OrderPlaced == pc' \in {"sell", "buy"} /\ (pc' # pc \/ pendingOrder' # pendingOrder)
\* C32: every order, sell or buy, is placed in a step that the engine begins
\* and ends with the status RUNNING, whatever the interleaving of initialize(),
\* start(), stop() and the timer fires.
C32_OrdersOnlyWhileRunning ==
    [][OrderPlaced => (status = "RUNNING" /\ status' = "RUNNING")]_vars

\* reconciliation drops a trade in this step
TradeDropped == HasMessage(logs', "no balance found")
\* C33: reconciliation drops a trade only on the evidence of a balance that
\* getBalance delivered.  Every balance response of the model reports a
\* holding, so an empty portfolio means that no getBalance has succeeded since
\* the construction: no trade is dropped then.
C33_NoDropWithoutFetchedBalance ==
    [][TradeDropped => portfolio # <<>>]_vars

\* the ticker fetch of the iteration fails in this step
ScanFails == pc = "scan" /\ HasMessage(logs', "Market scan failed")
\* C34: an iteration whose ticker fetch fails places no order: the step in
\* which fetchTickers fails hands no sell and no buy to placeOrder (and so the
\* iteration ends in it).
C34_NoOrderOnStalePrices ==
    [][ScanFails => (pc' \notin {"sell", "buy"} /\ pendingOrder' = NoOrder)]_vars

\* a refreshAccount() whose getBalance succeeded ends in this step
RefreshSucceeds ==
    /\ (pc = "refresh" /\ pc' # "refresh") \/ (initPc = "refresh" /\ initPc' = "done")
    /\ ~HasMessage(logs', "Failed to refresh account")
\* C35: after every successful refreshAccount(), usdtBalance is the free USDT
\* amount of the balance response (the response is the one that gives the new
\* portfolio), also when the response reports a USDT total of zero.
C35_UsdtBalanceFollowsResponse ==
    [][RefreshSucceeds
         => \E balance \in ExchangeBalances :
               /\ balance.ok
               /\ portfolio' = PortfolioItems(Currencies, balance, activeTrades)
               /\ usdtBalance' = balance["USDT"].free]_vars

\* C36: the step in which a sell of a symbol fills does not go on to order a
\* buy of that symbol: the buy decision that follows the sell in the same
\* iteration chooses another pair, or none.
C36_NoBuyBackInSameIteration ==
    [][(pc = "sell" /\ orderSeq' = orderSeq + 1 /\ pc' = "buy")
         => pendingOrder'.symbol # pendingOrder.symbol]_vars

\* the last price of the pair on a ticker board, Undefined when it is not listed
ExchangePrice(tickers, symbol) ==
    IF Has(tickers, symbol) THEN Find(tickers, symbol).last ELSE Undefined
\* on the board, the trade's price is at or above its target, and the free
\* amount of the last balance report is worth selling at that price
DueOnExchange(tickers, symbol) ==
    LET price == ExchangePrice(tickers, symbol)
    IN /\ IsNum(price)
       /\ price * 100 >= TargetPrice100(Find(activeTrades, symbol), settings)
       /\ ~NoBalance(portfolio, symbol)
       /\ ~SellIsDust(Find(portfolio, symbol).amount, price)
\* C37: every iteration of a RUNNING engine whose gateway calls are answered
\* orders the sell of an active trade that the exchange prices at or above its
\* target and whose free balance is worth at least MIN_TRADE_VALUE_USDT (so the
\* trade is sold within one iteration), wherever the pair stands in the ranking
\* by quoteVolume and whatever maxCoinPrice is; the ticker board of the
\* iteration is the one that gives its marketData.
C37_DueTradeSoldWithinIteration ==
    [][(ScanSucceeds /\ ~isStopping /\ status = "RUNNING")
         => \A board \in ExchangeBoards :
               (board.ok /\ ScanResult(board.tickers) = marketData')
                  => \A symbol \in ActiveBefore :
                        DueOnExchange(board.tickers, symbol) => pc' = "sell"]_vars

\* what the claim compares of a trade
Position(t) ==
    [symbol |-> t.symbol, purchasePrice |-> t.purchasePrice, amount |-> t.amount,
     highestPriceSinceBuy |-> t.highestPriceSinceBuy]
Positions(trades) == {Position(trades[i]) : i \in 1..Len(trades)}
\* C38: while every write of the store has succeeded, between iterations the
\* rows of active_trades are the trades of activeTrades, one row per trade with
\* the same symbol, purchasePrice, amount and highestPriceSinceBuy, and an
\* engine constructed over the store gets exactly these positions.
C38_StoreMirrorsActiveTrades ==
    (outages = 0 /\ pc = "idle")
        => /\ Len(db.trades) = Len(activeTrades)
           /\ Positions(LoadActiveTrades(db.trades)) = Positions(activeTrades)
           /\ Positions(ConstructedTrades(db)) = Positions(activeTrades)
\* an engine constructed after a crash holds a trade with the high-water mark
\* that the trailing-stop bookkeeping had raised above the purchase price
C38_Witness ==
    /\ restarts = 1 /\ outages = 0 /\ initPc = "new"
    /\ \E i \in 1..Len(activeTrades) :
          activeTrades[i].highestPriceSinceBuy > activeTrades[i].purchasePrice

\* the lock is granted to an executeLoop() call in this step
LoopRuns == waitq # <<>> /\ Head(waitq).kind = "loop" /\ waitq' = Tail(waitq)
\* C39: after every step, a RUNNING engine with no stop() call waiting for the
\* lock has isStopping false; and an executeLoop() call that gets the lock of
\* such an engine starts an iteration, it does not return without scanning.
C39_RunningMeansNotStopping ==
    [][/\ (status' = "RUNNING" /\ ~StopWaiting') => ~isStopping'
       /\ (LoopRuns /\ status = "RUNNING" /\ ~StopWaiting)
             => (pc' = "refresh" /\ isScanning')]_vars
\* a start() has just made the engine RUNNING again after a stop() (the status
\* left RUNNING before, and initialize() has not yet assigned it): the flag
\* that the stop() set is cleared
C39_Witness ==
    /\ status = "RUNNING" /\ ~isStopping /\ ~StopWaiting
    /\ HasMessage(logs, "Starting Bot...")
    /\ now >= 1 /\ initPc = "gateway"

====
